---- MODULE Spec2Model ----
(***************************************************************************)
(* The portfolio state reconciler of the financial dashboard (App): the    *)
(* watch-list (mySymbols), the holding quantities (stockQuantities) and    *)
(* the analysis collection (portfolioStocks), their copies in localStorage *)
(* and the asynchronous requests to the analysis collaborator.             *)
(*                                                                         *)
(* One step of the model is one event-loop task of the browser: an event   *)
(* handler together with the React render and the effects it triggers.     *)
(***************************************************************************)
EXTENDS Integers, Sequences, FiniteSets, TLC

(***************************************************************************)
(* Bounds of the model.                                                    *)
(***************************************************************************)
\* pieces (tokens and empty pieces) of one raw input of the symbol field
MaxTokens == 2
\* entries of one analysis batch returned by the collaborator
MaxBatch == 1

\* integers up to this magnitude are held exactly
MaxExact == 1000000000
\* powers with a larger exponent are kept as terms: 2^MaxExponent passes MaxExact
MaxExponent == 30
\* the retirement tab opens while the cash it computes is within this
\* distance of 0 or of the default savings
MaxDrift == 3

(***************************************************************************)
(* Input domains.                                                          *)
(***************************************************************************)
\* what the user types between two separators; "\taapl" carries white space
\* that only trim() removes and letters that toUpperCase() changes
RawTokens == {"2330", "304", "\taapl"}

\* the symbols a watch-list built from RawTokens holds
Symbols == {"2330", "3042", "AAPL"}

\* the symbols the collaborator answers with (and quantities are held for)
AnalysisSymbols == {"2330", "3042"}

\* currentPrice values of an analysis entry
Prices == {3}

\* Number(e.target.value) of the quantity inputs
QtyInputs == {-1, 2}

\* edits of the plan fields: the field and the number typed
PlanEdits ==
    {<<"retirementAge", 30>>, <<"retirementAge", 31>>,
     <<"expectedAnnualReturn", 0>>, <<"insuranceYearDone", 2100>>}

\* numbers typed into the cash field
CashInputs == {0, 5}

\* the collaborator's answers to an advice request: "raise", or the text
AdviceOutcomes == {"raise", "advice"}

\* what the user types into the API key field
KeyInputs == {" ", "k"}

VARIABLES
    phase,            \* "unloaded": the page is not rendered; "running": App is mounted
                      \* "crashed": React unmounted the tree after an uncaught error
    storage,          \* localStorage: the four keys of App
    envKey,           \* an API key comes from the build environment
    mySymbols,        \* the watch-list
    stockQuantities,  \* symbol -> quantity
    portfolioStocks,  \* the analysis collection
    portfolioLoading,
    trendStocks,
    trendLoading,
    errorMsg,
    showApiKeyModal,
    analysisInFlight, \* analyzePortfolio requests awaiting the collaborator
    trendsInFlight,   \* analyzeMarketTrends requests awaiting the collaborator
    activeTab,        \* the tab App renders
    planItem,         \* localStorage: the item finance_retirement_plan
    plan,             \* RetirementCalc (mounted while its tab is active)
    cashSavings,
    result,
    advice,
    loadingAdvice,
    adviceInFlight,   \* getRetirementAdvice requests awaiting the collaborator
    lastOp,           \* history: the handler that ran last and its input
    writes            \* history: the keys of storage the last step wrote

collections == <<mySymbols, stockQuantities, portfolioStocks>>
flags == <<portfolioLoading, trendStocks, trendLoading, errorMsg, showApiKeyModal>>
requests == <<analysisInFlight, trendsInFlight>>
calcState == <<plan, cashSavings, result>>
adviceState == <<advice, loadingAdvice, adviceInFlight>>
retirementTab == <<activeTab, planItem, calcState, adviceState>>
vars == <<phase, storage, envKey, mySymbols, stockQuantities, portfolioStocks,
          portfolioLoading, trendStocks, trendLoading, errorMsg, showApiKeyModal,
          analysisInFlight, trendsInFlight, activeTab, planItem, plan, cashSavings,
          result, advice, loadingAdvice, adviceInFlight, lastOp, writes>>

(***************************************************************************)
(* Values.                                                                 *)
(***************************************************************************)
Range(s) == {s[i] : i \in DOMAIN s}

SeqsUpTo(S, n) == UNION {[1..k -> S] : k \in 0..n}

EmptyMap == [s \in {} |-> 0]

StockAnalysis == [symbol : AnalysisSymbols, currentPrice : Prices]

Batches == SeqsUpTo(StockAnalysis, MaxBatch)

TrendBatches == {<<>>, <<[symbol |-> "2330", currentPrice |-> 3]>>}

NoMessage == "null"
TrendsFailedMsg == "trends failed"
AnalysisFailedMsg == "analysis failed"

(***************************************************************************)
(* localStorage and JSON.  A stored item is absent (getItem gives null),   *)
(* a text JSON.parse throws on, or the JSON text of a value.               *)
(***************************************************************************)
ABSENT == [kind |-> "absent", val |-> <<>>]
CORRUPT == [kind |-> "corrupt", val |-> <<>>]

JSONstringify(v) == [kind |-> "json", val |-> v]

SetItem(st, key, item) == [st EXCEPT ![key] = item]

RemoveItem(st, key) == [st EXCEPT ![key] = ABSENT]

\* saved ? JSON.parse(saved) : dflt, inside try { } catch { return dflt }
ParseOrDefault(item, dflt) == IF item.kind = "json" THEN item.val ELSE dflt

(***************************************************************************)
(* Object.keys of the quantities object: integer-like keys in ascending    *)
(* numeric order, then the other keys in insertion order.  Symbols holds   *)
(* one key that is not integer-like, so the key set decides the order.     *)
(***************************************************************************)
KeyRank(s) == CASE s = "2330" -> 2330
                [] s = "3042" -> 3042
                [] OTHER -> 99999

RECURSIVE SortedKeys(_)
SortedKeys(S) ==
    IF S = {} THEN <<>>
    ELSE LET m == CHOOSE x \in S : \A y \in S : KeyRank(x) <= KeyRank(y)
         IN <<m>> \o SortedKeys(S \ {m})

ObjectKeys(obj) == SortedKeys(DOMAIN obj)

(***************************************************************************)
(* handleAddSymbol's pipeline.  The raw input is the text of the symbol    *)
(* field, given as its pieces between single commas: <<"2330", "">> is the *)
(* text "2330," and <<"">> is the empty text.                              *)
(***************************************************************************)
RawInputs == UNION {[1..k -> RawTokens \cup {""}] : k \in 1..MaxTokens}

\* the inputs typed while the rest of the dashboard is in use
TypedInputs == {<<"2330">>, <<"304">>, <<"\taapl">>, <<"2330", "2330">>}

IsEmptyText(raw) == raw = <<"">>

\* inputSymbol.split(/[, ]+/): a run of separators is one separator; a
\* separator at the start or the end of the text leaves an empty token there
Split(raw) ==
    (IF raw[1] = "" THEN <<"">> ELSE <<>>)
    \o SelectSeq(raw, LAMBDA t : t # "")
    \o (IF Len(raw) > 1 /\ raw[Len(raw)] = "" THEN <<"">> ELSE <<>>)

Trim(s) == CASE s = " " -> ""
             [] s = "\taapl" -> "aapl"
             [] s = "\tAAPL" -> "AAPL"
             [] OTHER -> s

ToUpperCase(s) == CASE s = "aapl" -> "AAPL"
                    [] s = "\taapl" -> "\tAAPL"
                    [] OTHER -> s

NormalizeToken_NoCorrection(s) == ToUpperCase(Trim(s))

NormalizeToken_NoTrim(s) ==
    LET cleanS == ToUpperCase(s)
    IN IF cleanS = "304" THEN "3042" ELSE cleanS

\* s => { const cleanS = s.trim().toUpperCase();
\*        if (cleanS === '304') return '3042'; return cleanS; }
NormalizeToken(s) ==
    LET cleanS == ToUpperCase(Trim(s))
    IN IF cleanS = "304" THEN "3042" ELSE cleanS

\* inputSymbol.split(...).map(...).filter(s => s.length > 0)
NewSymbols(raw) ==
    LET tokens == Split(raw)
    IN SelectSeq([i \in DOMAIN tokens |-> NormalizeToken(tokens[i])], LAMBDA s : s # "")

\* newSymbols.filter(s => !mySymbols.includes(s))
UniqueNewSymbols(raw, symbols) ==
    SelectSeq(NewSymbols(raw), LAMBDA s : s \notin Range(symbols))

(***************************************************************************)
(* handleRemoveSymbol's filters.                                           *)
(***************************************************************************)
RECURSIVE RemoveFirst(_, _)
RemoveFirst(symbols, symbolToRemove) ==
    IF symbols = <<>> THEN <<>>
    ELSE IF Head(symbols) = symbolToRemove THEN Tail(symbols)
    ELSE <<Head(symbols)>> \o RemoveFirst(Tail(symbols), symbolToRemove)

\* mySymbols.filter(s => s !== symbolToRemove)
FilterSymbols(symbols, symbolToRemove) ==
    SelectSeq(symbols, LAMBDA s : s # symbolToRemove)

\* prev.filter(s => s.symbol !== symbolToRemove)
FilterStocks(stocks, symbolToRemove) ==
    SelectSeq(stocks, LAMBDA s : s.symbol # symbolToRemove)

(***************************************************************************)
(* Derived values.                                                         *)
(***************************************************************************)
AnalyzedSymbols(stocks) == {stocks[i].symbol : i \in DOMAIN stocks}

HasPending_ByCount(symbols, stocks) ==
    IF Len(symbols) = 0 THEN FALSE
    ELSE IF Len(stocks) = 0 THEN TRUE
    ELSE Len(symbols) > Len(stocks)

\* the useMemo of hasPendingSymbols
HasPending(symbols, stocks) ==
    IF Len(symbols) = 0 THEN FALSE
    ELSE IF Len(stocks) = 0 THEN TRUE
    ELSE \E i \in DOMAIN symbols : symbols[i] \notin AnalyzedSymbols(stocks)

hasPendingSymbols == HasPending(mySymbols, portfolioStocks)

\* stockQuantities[stock.symbol] || 0
QtyOf(quantities, symbol) ==
    IF symbol \in DOMAIN quantities THEN quantities[symbol] ELSE 0

\* portfolioStocks.reduce((sum, stock) => sum + stock.currentPrice * qty, 0)
RECURSIVE TotalValue(_, _)
TotalValue(stocks, quantities) ==
    IF stocks = <<>> THEN 0
    ELSE TotalValue(SubSeq(stocks, 1, Len(stocks) - 1), quantities)
         + stocks[Len(stocks)].currentPrice
           * QtyOf(quantities, stocks[Len(stocks)].symbol)

portfolioTotalValue == TotalValue(portfolioStocks, stockQuantities)

(***************************************************************************)
(* JavaScript numbers.  A number is an integer held exactly, NaN, or the   *)
(* term of an operation whose double the model does not compute (a         *)
(* quotient that is not an integer, a power of such a quotient, a value    *)
(* beyond MaxExact).  Equal terms are equal doubles.                       *)
(***************************************************************************)
N(i) == [k |-> "int", n |-> i, args |-> <<>>]

NaN == [k |-> "nan", n |-> 0, args |-> <<>>]

Term(f, a, b) == [k |-> f, n |-> 0, args |-> <<a, b>>]

True == [k |-> "true", n |-> 0, args |-> <<>>]

False == [k |-> "false", n |-> 0, args |-> <<>>]

IsInt(a) == a.k = "int"

IsNaN(a) == a.k = "nan"

Abs(i) == IF i < 0 THEN -i ELSE i

\* an integer product the model holds exactly
ProductFits(i, j) == i = 0 \/ Abs(j) <= MaxExact \div Abs(i)

Add(a, b) ==
    IF IsNaN(a) \/ IsNaN(b) THEN NaN
    ELSE IF IsInt(a) /\ IsInt(b) /\ Abs(a.n) <= MaxExact /\ Abs(b.n) <= MaxExact
    THEN N(a.n + b.n)
    ELSE Term("add", a, b)

Sub(a, b) ==
    IF IsNaN(a) \/ IsNaN(b) THEN NaN
    ELSE IF IsInt(a) /\ IsInt(b) /\ Abs(a.n) <= MaxExact /\ Abs(b.n) <= MaxExact
    THEN N(a.n - b.n)
    ELSE Term("sub", a, b)

Mul(a, b) ==
    IF IsNaN(a) \/ IsNaN(b) THEN NaN
    ELSE IF IsInt(a) /\ IsInt(b) /\ ProductFits(a.n, b.n) THEN N(a.n * b.n)
    ELSE Term("mul", a, b)

\* 0 / 0 is NaN; x / 0 is an infinity, kept as a term
Div(a, b) ==
    IF IsNaN(a) \/ IsNaN(b) THEN NaN
    ELSE IF IsInt(a) /\ IsInt(b) /\ a.n = 0 /\ b.n = 0 THEN NaN
    ELSE IF IsInt(a) /\ IsInt(b) /\ b.n # 0 /\ a.n % Abs(b.n) = 0
    THEN N(IF b.n > 0 THEN a.n \div b.n ELSE (-a.n) \div (-b.n))
    ELSE Term("div", a, b)

\* i^e for i >= 0, or MaxExact + 1 once it passes MaxExact
RECURSIVE IntPow(_, _)
IntPow(i, e) ==
    IF e = 0 THEN 1
    ELSE LET r == IntPow(i, e - 1)
         IN IF r > MaxExact \/ ~ProductFits(r, i) THEN MaxExact + 1 ELSE r * i

\* Math.pow(a, e) for an integer e: Math.pow(x, 0) is 1 for every x
Pow(a, e) ==
    IF e = 0 THEN N(1)
    ELSE IF IsNaN(a) THEN NaN
    ELSE IF e > 0 /\ IsInt(a) /\ a.n \in {0, 1} THEN a
    ELSE IF e > 0 /\ e <= MaxExponent /\ IsInt(a) /\ a.n > 1 /\ IntPow(a.n, e) <= MaxExact
    THEN N(IntPow(a.n, e))
    ELSE Term("pow", a, N(e))

\* Math.max(a, b)
Max(a, b) ==
    IF IsNaN(a) \/ IsNaN(b) THEN NaN
    ELSE IF IsInt(a) /\ IsInt(b) THEN (IF a.n >= b.n THEN a ELSE b)
    ELSE Term("max", a, b)

\* a >= b: false when either is NaN
Geq(a, b) ==
    IF IsNaN(a) \/ IsNaN(b) THEN False
    ELSE IF IsInt(a) /\ IsInt(b) THEN (IF a.n >= b.n THEN True ELSE False)
    ELSE Term("geq", a, b)

\* the operand test of ||: 0 and NaN are falsy
Falsy(a) == IsNaN(a) \/ (IsInt(a) /\ a.n = 0)

(***************************************************************************)
(* RetirementCalc: the plan and the projection.                            *)
(***************************************************************************)
\* the defaults of the plan initializer
DefaultPlan ==
    [currentAge |-> 30,
     retirementAge |-> 65,
     currentSavings |-> 1000000,
     monthlySavings |-> 20000,
     targetMonthlyPension |-> 50000,
     expectedAnnualReturn |-> 6,
     insurancePrincipal |-> 200000,
     insuranceRate |-> Div(N(5), N(2)),
     insuranceYearDone |-> 2022]

\* parsed.field || dflt
OrDefault(v, dflt) == IF v = 0 THEN dflt ELSE v

\* useState<RetirementPlan>(() => { try { ... } catch (e) { ... } })
PlanInitializer(item) ==
    IF item.kind # "json" THEN DefaultPlan
    ELSE LET parsed == item.val
         IN [currentAge |-> OrDefault(parsed.currentAge, DefaultPlan.currentAge),
             retirementAge |-> OrDefault(parsed.retirementAge, DefaultPlan.retirementAge),
             currentSavings |-> OrDefault(parsed.currentSavings, DefaultPlan.currentSavings),
             monthlySavings |-> OrDefault(parsed.monthlySavings, DefaultPlan.monthlySavings),
             targetMonthlyPension |->
                 OrDefault(parsed.targetMonthlyPension, DefaultPlan.targetMonthlyPension),
             expectedAnnualReturn |->
                 OrDefault(parsed.expectedAnnualReturn, DefaultPlan.expectedAnnualReturn),
             insurancePrincipal |->
                 OrDefault(parsed.insurancePrincipal, DefaultPlan.insurancePrincipal),
             insuranceRate |-> IF Falsy(parsed.insuranceRate) THEN DefaultPlan.insuranceRate
                               ELSE parsed.insuranceRate,
             insuranceYearDone |->
                 OrDefault(parsed.insuranceYearDone, DefaultPlan.insuranceYearDone)]

\* new Date().getFullYear(), the same at every render of a run
currentYear == 2026

yearsToRetire(p) == p.retirementAge - p.currentAge

retireYear(p) == currentYear + yearsToRetire(p)

\* a count of years that may go below zero
insuranceCompoundingYears_Unclamped(p) == retireYear(p) - p.insuranceYearDone

\* Math.max(0, retireYear - plan.insuranceYearDone)
insuranceCompoundingYears(p) ==
    IF retireYear(p) - p.insuranceYearDone > 0 THEN retireYear(p) - p.insuranceYearDone ELSE 0

monthlyRate(p) == Div(Div(N(p.expectedAnnualReturn), N(100)), N(12))

months(p) == yearsToRetire(p) * 12

\* Math.pow(1 + monthlyRate, months)
Growth(p) == Pow(Add(N(1), monthlyRate(p)), months(p))

fvLumpSum(p) == Mul(N(p.currentSavings), Growth(p))

fvMonthly(p) == Mul(N(p.monthlySavings), Div(Sub(Growth(p), N(1)), monthlyRate(p)))

fvInsurance(p) ==
    Mul(N(p.insurancePrincipal),
        Pow(Add(N(1), Div(p.insuranceRate, N(100))), insuranceCompoundingYears(p)))

totalAccumulated(p) == Add(Add(fvLumpSum(p), fvMonthly(p)), fvInsurance(p))

\* the literal 0.04 is the double of 4 / 100
WithdrawalRate == Div(N(4), N(100))

monthlyPensionPossible(p) == Div(Mul(totalAccumulated(p), WithdrawalRate), N(12))

requiredTotal(p) == Div(Mul(N(p.targetMonthlyPension), N(12)), WithdrawalRate)

shortfall(p) == Max(N(0), Sub(requiredTotal(p), totalAccumulated(p)))

\* useState<RetirementResult | null>(null)
NoResult == [present |-> FALSE]

\* the object calculate hands to setResult
Projection(p) ==
    [present |-> TRUE,
     yearsToRetire |-> yearsToRetire(p),
     totalAccumulated |-> totalAccumulated(p),
     monthlyPensionPossible |-> monthlyPensionPossible(p),
     isGoalReachable |-> Geq(monthlyPensionPossible(p), N(p.targetMonthlyPension)),
     shortfall |-> shortfall(p),
     advice |-> ""]

\* result after calculate() ran in a render whose plan is p
calculate(p, prev) == IF yearsToRetire(p) <= 0 THEN prev ELSE Projection(p)

(***************************************************************************)
(* The collaborator's answers.                                             *)
(***************************************************************************)
\* generateContent rejects, or resolves with a text
RAISE == [kind |-> "raise", text |-> CORRUPT]

TextResponse(text) == [kind |-> "text", text |-> text]

AnalysisResponses ==
    {RAISE, TextResponse(CORRUPT)} \cup {TextResponse(JSONstringify(b)) : b \in Batches}

TrendResponses ==
    {RAISE, TextResponse(CORRUPT)} \cup {TextResponse(JSONstringify(b)) : b \in TrendBatches}

\* try { ... return JSON.parse(...) } catch (e) { return [] }
extractJson(text) == IF text.kind = "json" THEN text.val ELSE <<>>

\* getApiKey() !== null
HasApiKey(st, env) == st.apiKey.kind = "json" \/ env

(***************************************************************************)
(* Initial state: the page is about to load.  localStorage holds what an   *)
(* earlier session or another program left there.                          *)
(***************************************************************************)
InitialStorage ==
    [symbols : {ABSENT, CORRUPT},
     quantities : {ABSENT, CORRUPT, JSONstringify([s \in {"2330"} |-> 2])},
     data : {ABSENT, CORRUPT},
     apiKey : {ABSENT, JSONstringify("k")}]

Op(name, input) == [op |-> name, input |-> input]

NoAdvice == ""

\* the plan of a RetirementCalc that is not rendered
NoPlan == [rendered |-> FALSE]

\* RetirementCalc is not rendered: its state does not exist
CalcUnmounted ==
    /\ plan = NoPlan
    /\ cashSavings = 0
    /\ result = NoResult
    /\ advice = NoAdvice
    /\ loadingAdvice = FALSE
    /\ adviceInFlight = 0

\* RetirementCalc goes away; what a pending request sets later is lost
UnmountCalc ==
    /\ plan' = NoPlan
    /\ cashSavings' = 0
    /\ result' = NoResult
    /\ advice' = NoAdvice
    /\ loadingAdvice' = FALSE
    /\ adviceInFlight' = 0

\* the useState defaults of App that do not come from localStorage
Unmounted ==
    /\ mySymbols = <<>>
    /\ stockQuantities = EmptyMap
    /\ portfolioStocks = <<>>
    /\ portfolioLoading = FALSE
    /\ trendStocks = <<>>
    /\ trendLoading = FALSE
    /\ errorMsg = NoMessage
    /\ showApiKeyModal = FALSE
    /\ analysisInFlight = 0
    /\ trendsInFlight = 0
    /\ activeTab = "MARKET_ANALYSIS"
    /\ CalcUnmounted

\* the page goes away: the in-memory state and the pending requests are gone
Unmount ==
    /\ mySymbols' = <<>>
    /\ stockQuantities' = EmptyMap
    /\ portfolioStocks' = <<>>
    /\ portfolioLoading' = FALSE
    /\ trendStocks' = <<>>
    /\ trendLoading' = FALSE
    /\ errorMsg' = NoMessage
    /\ showApiKeyModal' = FALSE
    /\ analysisInFlight' = 0
    /\ trendsInFlight' = 0
    /\ activeTab' = "MARKET_ANALYSIS"
    /\ UnmountCalc

Init ==
    /\ phase = "unloaded"
    /\ storage \in InitialStorage
    /\ envKey \in BOOLEAN
    /\ Unmounted
    /\ planItem = ABSENT
    /\ lastOp = Op("none", <<>>)
    /\ writes = {}

(***************************************************************************)
(* The persistence effects (backup): each runs after the render in which   *)
(* its collection changed, and after the first render.                     *)
(***************************************************************************)
PersistSymbols(st, symbols) == SetItem(st, "symbols", JSONstringify(symbols))

PersistQuantities(st, quantities) == SetItem(st, "quantities", JSONstringify(quantities))

PersistData(st, stocks) == SetItem(st, "data", JSONstringify(stocks))

(***************************************************************************)
(* The state initializers of App.                                          *)
(***************************************************************************)
StockQuantitiesInitializer(st) == ParseOrDefault(st.quantities, EmptyMap)

MySymbolsInitializer_NoRecovery(st) ==
    [symbols |-> ParseOrDefault(st.symbols, <<>>), store |-> st]

\* an initializer that takes the quantity keys whenever there are any
MySymbolsInitializer_PrefersQuantities(st) ==
    IF st.quantities.kind = "json" /\ DOMAIN st.quantities.val # {}
    THEN [symbols |-> ObjectKeys(st.quantities.val),
          store |-> SetItem(st, "symbols", JSONstringify(ObjectKeys(st.quantities.val)))]
    ELSE [symbols |-> ParseOrDefault(st.symbols, <<>>), store |-> st]

\* the symbols it returns and localStorage as it leaves it
MySymbolsInitializer(st) ==
    IF st.symbols.kind = "corrupt" THEN [symbols |-> <<>>, store |-> st]
    ELSE LET symbols == IF st.symbols.kind = "json" THEN st.symbols.val ELSE <<>>
         IN IF Len(symbols) # 0 \/ st.quantities.kind = "absent"
            THEN [symbols |-> symbols, store |-> st]
            ELSE IF st.quantities.kind = "corrupt"
            THEN [symbols |-> <<>>, store |-> st]
            ELSE LET recoveredSymbols == ObjectKeys(st.quantities.val)
                 IN IF Len(recoveredSymbols) > 0
                    THEN [symbols |-> recoveredSymbols,
                          store |-> SetItem(st, "symbols", JSONstringify(recoveredSymbols))]
                    ELSE [symbols |-> symbols, store |-> st]

PortfolioStocksInitializer(st) == ParseOrDefault(st.data, <<>>)

(***************************************************************************)
(* handleFetchTrends up to its await: without a key getAIClient throws and *)
(* the catch and finally blocks run before any other task.                 *)
(***************************************************************************)
\* a fetch that sends its request without looking for a key
FetchTrendsStart_Unchecked(st) ==
    /\ errorMsg' = NoMessage
    /\ trendLoading' = TRUE
    /\ trendsInFlight' = trendsInFlight + 1

FetchTrendsStart(st) ==
    IF HasApiKey(st, envKey)
    THEN /\ errorMsg' = NoMessage
         /\ trendLoading' = TRUE
         /\ trendsInFlight' = trendsInFlight + 1
    ELSE /\ errorMsg' = TrendsFailedMsg
         /\ trendLoading' = FALSE
         /\ trendsInFlight' = trendsInFlight

(***************************************************************************)
(***************************************************************************)
(* RetirementCalc.  One step is a handler with the renders and effects it  *)
(* sets off, up to the render that schedules nothing more.                 *)
(***************************************************************************)
PersistPlan(p) == JSONstringify(p)

\* a sync effect that follows the cash field only
SyncPlan_CashOnly(p, cash, value) ==
    IF p.currentSavings # cash THEN [p EXCEPT !.currentSavings = cash] ELSE p

\* the [cashSavings, portfolioTotalValue] effect of a render with plan p
SyncPlan(p, cash, value) ==
    IF p.currentSavings # cash + value THEN [p EXCEPT !.currentSavings = cash + value] ELSE p

\* an effect that would write only the plans the user typed
PlanEffectRuns_InputOnly(planSet, synced) == planSet

\* the [plan] effect runs after a render whose plan object is a new one
PlanEffectRuns(planSet, synced) == planSet \/ synced

\* a [plan] effect whose calculate reads the plan of the handler's render
ResultAfter_FirstRender(p, p2, planSet, synced, prev) == calculate(p, prev)

\* result after the [plan] effects: of the render with the plan the handler
\* set (p, when planSet) and of the render with the synced plan (p2)
ResultAfter(p, p2, planSet, synced, prev) ==
    IF planSet /\ synced THEN calculate(p2, calculate(p, prev)) ELSE calculate(p2, prev)

\* a render in which cashSavings or portfolioTotalValue (depsChanged) or the
\* plan object (planSet) changed, and the renders that follow it
Settle(p, cash, value, depsChanged, planSet) ==
    LET synced == depsChanged /\ SyncPlan(p, cash, value) # p
        p2 == IF synced THEN SyncPlan(p, cash, value) ELSE p
    IN /\ plan' = p2
       /\ cashSavings' = cash
       /\ IF PlanEffectRuns(planSet, synced)
          THEN /\ planItem' = PersistPlan(p2)
               /\ result' = ResultAfter(p, p2, planSet, synced, result)
          ELSE UNCHANGED <<planItem, result>>

\* App re-rendered with new analysis entries or quantities
RetirementFollows ==
    IF activeTab = "RETIREMENT_PLANNING"
    THEN Settle(plan, cashSavings, TotalValue(portfolioStocks', stockQuantities'),
                TotalValue(portfolioStocks', stockQuantities') # portfolioTotalValue, FALSE)
    ELSE UNCHANGED <<planItem, calcState>>

\* the first render of RetirementCalc with the stored plan item and the
\* portfolio value, its three effects, and the renders they set off
MountSplit(item, value) ==
    LET plan0 == PlanInitializer(item)
        calculatedCash == IF plan0.currentSavings - value > 0
                          THEN plan0.currentSavings - value ELSE 0
        plan1 == SyncPlan(plan0, 0, value)
        result1 == calculate(plan0, NoResult)
        plan2 == IF calculatedCash # 0 THEN SyncPlan(plan1, calculatedCash, value) ELSE plan1
        result2 == IF plan1 # plan0 THEN calculate(plan1, result1) ELSE result1
        result3 == IF plan2 # plan1 THEN calculate(plan2, result2) ELSE result2
    IN [plan |-> plan2, cashSavings |-> calculatedCash, result |-> result3]

MountCalc ==
    LET mounted == MountSplit(planItem, portfolioTotalValue)
    IN /\ plan' = mounted.plan
       /\ cashSavings' = mounted.cashSavings
       /\ result' = mounted.result
       /\ planItem' = PersistPlan(mounted.plan)
       /\ advice' = NoAdvice
       /\ loadingAdvice' = FALSE
       /\ adviceInFlight' = 0

\* the tab buttons
setActiveTab(tab) ==
    /\ phase = "running"
    /\ tab # activeTab
    /\ activeTab' = tab
    /\ IF tab = "RETIREMENT_PLANNING"
       THEN MountCalc
       ELSE UnmountCalc /\ UNCHANGED planItem
    /\ lastOp' = Op("setActiveTab", tab)
    /\ writes' = {}
    /\ UNCHANGED <<phase, storage, envKey, collections, flags, requests>>

\* setPlan(prev => ({ ...prev, [field]: Number(value) }))
handleInputChange(field, value) ==
    /\ phase = "running"
    /\ activeTab = "RETIREMENT_PLANNING"
    /\ Settle(IF field = "insuranceRate"
              THEN [plan EXCEPT !.insuranceRate = N(value)]
              ELSE [plan EXCEPT ![field] = value],
              cashSavings, portfolioTotalValue, FALSE, TRUE)
    /\ lastOp' = Op("handleInputChange", <<>>)
    /\ writes' = {}
    /\ UNCHANGED <<phase, storage, envKey, collections, flags, requests, activeTab,
                   adviceState>>

\* setCashSavings(Number(value))
handleCashChange(value) ==
    /\ phase = "running"
    /\ activeTab = "RETIREMENT_PLANNING"
    /\ Settle(plan, value, portfolioTotalValue, value # cashSavings, FALSE)
    /\ lastOp' = Op("handleCashChange", <<>>)
    /\ writes' = {}
    /\ UNCHANGED <<phase, storage, envKey, collections, flags, requests, activeTab,
                   adviceState>>

NoAdviceMsg == "no advice"

\* generateContent rejects, or resolves with a text that may be empty
AdviceResponse(outcome) ==
    IF outcome = "raise" THEN [kind |-> "raise", text |-> ""]
    ELSE [kind |-> "text", text |-> outcome]

\* fetchAdvice up to its await; without a key getAIClient throws, the catch
\* of getRetirementAdvice throws again and fetchAdvice ends there
fetchAdvice ==
    /\ phase = "running"
    /\ activeTab = "RETIREMENT_PLANNING"
    /\ ~loadingAdvice
    /\ result.present
    /\ loadingAdvice' = TRUE
    /\ adviceInFlight' = IF HasApiKey(storage, envKey) THEN adviceInFlight + 1
                          ELSE adviceInFlight
    /\ lastOp' = Op("fetchAdvice", IF HasApiKey(storage, envKey) THEN "sent" ELSE "raise")
    /\ writes' = {}
    /\ UNCHANGED <<phase, storage, envKey, collections, flags, requests, activeTab, planItem,
                   calcState, advice>>

\* the collaborator answers: the rest of fetchAdvice after the await
AdviceReturn(resp) ==
    /\ phase = "running"
    /\ adviceInFlight > 0
    /\ adviceInFlight' = adviceInFlight - 1
    /\ IF resp.kind = "raise"
       THEN UNCHANGED <<advice, loadingAdvice>>
       ELSE /\ advice' = IF resp.text = "" THEN NoAdviceMsg ELSE resp.text
            /\ loadingAdvice' = FALSE
    /\ lastOp' = Op("adviceReturn", resp.kind)
    /\ writes' = {}
    /\ UNCHANGED <<phase, storage, envKey, collections, flags, requests, activeTab, planItem,
                   calcState>>

(***************************************************************************)
(* The page loads: the initializers, the first render and the mount        *)
(* effects (API key check, persistence effects).                           *)
(***************************************************************************)
Mount ==
    /\ phase = "unloaded"
    /\ phase' = "running"
    /\ LET init == MySymbolsInitializer(storage)
       IN /\ stockQuantities' = StockQuantitiesInitializer(storage)
          /\ mySymbols' = init.symbols
          /\ portfolioStocks' = PortfolioStocksInitializer(storage)
          /\ storage' = PersistData(
                            PersistQuantities(
                                PersistSymbols(init.store, mySymbols'),
                                stockQuantities'),
                            portfolioStocks')
    /\ IF ~HasApiKey(storage, envKey)
       THEN /\ showApiKeyModal' = TRUE
            /\ UNCHANGED <<errorMsg, trendLoading, trendsInFlight>>
       ELSE /\ showApiKeyModal' = FALSE
            /\ FetchTrendsStart(storage)
    /\ lastOp' = Op("mount", IF MySymbolsInitializer(storage).store # storage
                              THEN "recovered" ELSE "loaded")
    /\ writes' = {"symbols", "quantities", "data"}
    /\ UNCHANGED <<envKey, portfolioLoading, trendStocks, analysisInFlight, retirementTab>>

\* the user reloads or closes and reopens the page: the in-memory state and
\* the pending requests are gone, localStorage stays
Reload ==
    /\ phase \in {"running", "crashed"}
    /\ phase' = "unloaded"
    /\ Unmount
    /\ lastOp' = Op("reload", <<>>)
    /\ writes' = {}
    /\ UNCHANGED <<storage, envKey, planItem>>

(***************************************************************************)
(* handleAddSymbol, with the symbol field holding raw.                     *)
(***************************************************************************)
handleAddSymbol(raw) ==
    /\ phase = "running"
    /\ activeTab = "MARKET_ANALYSIS"
    /\ LET uniqueNewSymbols == UniqueNewSymbols(raw, mySymbols)
       IN IF ~IsEmptyText(raw) /\ Len(uniqueNewSymbols) > 0
          THEN LET updatedList == mySymbols \o uniqueNewSymbols
               IN /\ mySymbols' = updatedList
                  /\ storage' = PersistSymbols(
                                    SetItem(storage, "symbols", JSONstringify(updatedList)),
                                    updatedList)
                  /\ writes' = {"symbols"}
          ELSE /\ UNCHANGED <<mySymbols, storage>>
               /\ writes' = {}
    /\ lastOp' = Op("handleAddSymbol", raw)
    /\ UNCHANGED <<phase, envKey, stockQuantities, portfolioStocks, flags, requests,
                   retirementTab>>

(***************************************************************************)
(* handleRemoveSymbol: the remove button of a watch-list entry.            *)
(***************************************************************************)
handleRemoveSymbol(symbolToRemove) ==
    /\ phase = "running"
    /\ activeTab = "MARKET_ANALYSIS"
    /\ symbolToRemove \in Range(mySymbols)
    /\ LET updatedList == FilterSymbols(mySymbols, symbolToRemove)
           updated == FilterStocks(portfolioStocks, symbolToRemove)
       IN /\ mySymbols' = updatedList
          /\ portfolioStocks' = updated
          /\ storage' = PersistData(
                            PersistSymbols(
                                SetItem(SetItem(storage, "symbols", JSONstringify(updatedList)),
                                        "data", JSONstringify(updated)),
                                updatedList),
                            updated)
    /\ lastOp' = Op("handleRemoveSymbol", symbolToRemove)
    /\ writes' = {"symbols", "data"}
    /\ UNCHANGED <<phase, envKey, stockQuantities, flags, requests, retirementTab>>

(***************************************************************************)
(* handleQuantityChange: the quantity input of a row of the analysis       *)
(* table (StockTable, and the portfolio list of RetirementCalc).           *)
(***************************************************************************)
Upsert(quantities, symbol, qty) ==
    [s \in DOMAIN quantities \cup {symbol} |->
        IF s = symbol THEN qty ELSE quantities[s]]

handleQuantityChange(symbol, qty) ==
    /\ phase = "running"
    /\ symbol \in AnalyzedSymbols(portfolioStocks)
    /\ LET updated == Upsert(stockQuantities, symbol, qty)
       IN /\ stockQuantities' = updated
          /\ storage' = PersistQuantities(
                            SetItem(storage, "quantities", JSONstringify(updated)),
                            updated)
    /\ lastOp' = Op("handleQuantityChange", <<symbol, qty>>)
    /\ writes' = {"quantities"}
    /\ UNCHANGED <<phase, envKey, mySymbols, portfolioStocks, flags, requests>>
    /\ RetirementFollows
    /\ UNCHANGED <<activeTab, adviceState>>

(***************************************************************************)
(* handleAnalyzePortfolio.  Both controls that call it are disabled or     *)
(* hidden while portfolioLoading is set.                                   *)
(***************************************************************************)
AnalyzeCatch_ClearsData ==
    /\ errorMsg' = AnalysisFailedMsg
    /\ portfolioStocks' = <<>>
    /\ storage' = PersistData(storage, <<>>)
    /\ writes' = {"data"}

\* catch (err) { console.error(err); setErrorMsg(...) }
AnalyzeCatch ==
    /\ errorMsg' = AnalysisFailedMsg
    /\ UNCHANGED <<portfolioStocks, storage>>
    /\ writes' = {}

\* a handler that adds the batch to the entries it already has
AnalyzeResolved_Merges(data) ==
    /\ portfolioStocks' = portfolioStocks \o data
    /\ storage' = PersistData(storage, portfolioStocks \o data)
    /\ writes' = {"data"}

\* setPortfolioStocks(data); localStorage.setItem('finance_portfolio_data', ...)
AnalyzeResolved(data) ==
    /\ portfolioStocks' = data
    /\ storage' = PersistData(SetItem(storage, "data", JSONstringify(data)), data)
    /\ writes' = {"data"}

\* the click, up to the await; without a key getAIClient throws and the
\* catch and finally blocks run before any other task
handleAnalyzePortfolio ==
    /\ phase = "running"
    /\ activeTab = "MARKET_ANALYSIS"
    /\ ~portfolioLoading
    /\ Len(mySymbols) # 0
    /\ IF HasApiKey(storage, envKey)
       THEN /\ errorMsg' = NoMessage
            /\ portfolioLoading' = TRUE
            /\ analysisInFlight' = analysisInFlight + 1
            /\ writes' = {}
            /\ UNCHANGED <<portfolioStocks, storage>>
       ELSE /\ AnalyzeCatch
            /\ portfolioLoading' = FALSE
            /\ UNCHANGED analysisInFlight
    /\ lastOp' = Op("handleAnalyzePortfolio", IF HasApiKey(storage, envKey) THEN "sent" ELSE "raise")
    /\ UNCHANGED <<phase, envKey, mySymbols, stockQuantities, trendStocks, trendLoading,
                   showApiKeyModal, trendsInFlight, retirementTab>>

ResponseKind(resp) ==
    IF resp.kind = "raise" THEN "raise"
    ELSE IF resp.text.kind = "json" THEN "ok" ELSE "malformed"

\* the collaborator answers: the rest of handleAnalyzePortfolio after the await
AnalyzeReturn(resp) ==
    /\ phase = "running"
    /\ analysisInFlight > 0
    /\ analysisInFlight' = analysisInFlight - 1
    /\ IF resp.kind = "raise"
       THEN AnalyzeCatch
       ELSE /\ AnalyzeResolved(extractJson(resp.text))
            /\ UNCHANGED errorMsg
    /\ portfolioLoading' = FALSE
    /\ lastOp' = [op |-> "analyzeReturn", input |-> ResponseKind(resp), resp |-> resp]
    /\ UNCHANGED <<phase, envKey, mySymbols, stockQuantities, trendStocks, trendLoading,
                   showApiKeyModal, trendsInFlight>>
    /\ RetirementFollows
    /\ UNCHANGED <<activeTab, adviceState>>

(***************************************************************************)
(* handleFetchTrends: the refresh control, disabled while trendLoading.    *)
(***************************************************************************)
\* a refresh control that stays enabled while a fetch is under way
handleFetchTrends_AlwaysEnabled ==
    /\ phase = "running"
    /\ activeTab = "MARKET_ANALYSIS"
    /\ FetchTrendsStart(storage)
    /\ lastOp' = Op("handleFetchTrends", IF HasApiKey(storage, envKey) THEN "sent" ELSE "raise")
    /\ writes' = {}
    /\ UNCHANGED <<phase, storage, envKey, collections, portfolioLoading, trendStocks,
                   showApiKeyModal, analysisInFlight, retirementTab>>

handleFetchTrends ==
    /\ phase = "running"
    /\ activeTab = "MARKET_ANALYSIS"
    /\ ~trendLoading
    /\ FetchTrendsStart(storage)
    /\ lastOp' = Op("handleFetchTrends", IF HasApiKey(storage, envKey) THEN "sent" ELSE "raise")
    /\ writes' = {}
    /\ UNCHANGED <<phase, storage, envKey, collections, portfolioLoading, trendStocks,
                   showApiKeyModal, analysisInFlight, retirementTab>>

TrendsReturn(resp) ==
    /\ phase = "running"
    /\ trendsInFlight > 0
    /\ trendsInFlight' = trendsInFlight - 1
    /\ IF resp.kind = "raise"
       THEN /\ errorMsg' = TrendsFailedMsg
            /\ UNCHANGED trendStocks
       ELSE /\ trendStocks' = extractJson(resp.text)
            /\ UNCHANGED errorMsg
    /\ trendLoading' = FALSE
    /\ lastOp' = Op("trendsReturn", ResponseKind(resp))
    /\ writes' = {}
    /\ UNCHANGED <<phase, storage, envKey, collections, portfolioLoading,
                   showApiKeyModal, analysisInFlight, retirementTab>>

(***************************************************************************)
(* The API key dialog and the other controls.                              *)
(***************************************************************************)
handleSaveApiKey(apiKeyInput) ==
    /\ phase = "running"
    /\ showApiKeyModal
    /\ IF Trim(apiKeyInput) # ""
       THEN /\ storage' = SetItem(storage, "apiKey", JSONstringify(Trim(apiKeyInput)))
            /\ showApiKeyModal' = FALSE
            /\ FetchTrendsStart(storage')
       ELSE UNCHANGED <<storage, showApiKeyModal, errorMsg, trendLoading, trendsInFlight>>
    /\ lastOp' = Op("handleSaveApiKey", apiKeyInput)
    /\ writes' = {}
    /\ UNCHANGED <<phase, envKey, collections, portfolioLoading, trendStocks, analysisInFlight,
                   retirementTab>>

\* localStorage.removeItem('gemini_api_key'); window.location.reload()
clearApiKey ==
    /\ phase = "running"
    /\ phase' = "unloaded"
    /\ storage' = RemoveItem(storage, "apiKey")
    /\ Unmount
    /\ lastOp' = Op("clearApiKey", <<>>)
    /\ writes' = {}
    /\ UNCHANGED <<envKey, planItem>>

handleManualSave ==
    /\ phase = "running"
    /\ activeTab = "MARKET_ANALYSIS"
    /\ storage' = PersistData(
                      PersistQuantities(PersistSymbols(storage, mySymbols), stockQuantities),
                      portfolioStocks)
    /\ lastOp' = Op("handleManualSave", "toast")
    /\ writes' = {"symbols", "quantities", "data"}
    /\ UNCHANGED <<phase, envKey, collections, flags, requests, retirementTab>>

(***************************************************************************)
(* The same handlers in a step in which localStorage.setItem throws (quota *)
(* exceeded, storage disabled).  An exception in an event handler ends the *)
(* handler, the state updates queued before it are still rendered; an      *)
(* exception in a render or in an effect is caught by no error boundary    *)
(* and React unmounts the whole tree.                                      *)
(***************************************************************************)
\* skipped: the first call of the handler that did not run;
\* reported: what the user was shown about the failure
FailedOp(name, input, skipped, reported) ==
    [op |-> name, input |-> input, failed |-> TRUE, skipped |-> skipped,
     reported |-> reported]

\* an uncaught error in a render or an effect: the page goes blank
Crash ==
    /\ phase' = "crashed"
    /\ Unmount
    /\ writes' = {}
    /\ UNCHANGED <<storage, envKey, planItem>>

\* the recovery write throws inside the try of the initializer (symbols
\* become []), then the three persistence effects of the first render throw
Mount_QuotaExceeded ==
    /\ phase = "unloaded"
    /\ Crash
    /\ lastOp' = FailedOp("mount", <<>>, "", "none")

\* setMySymbols is queued, setItem throws before setInputSymbol('');
\* the [mySymbols] effect of the next render throws
handleAddSymbol_QuotaExceeded(raw) ==
    /\ phase = "running"
    /\ activeTab = "MARKET_ANALYSIS"
    /\ ~IsEmptyText(raw)
    /\ Len(UniqueNewSymbols(raw, mySymbols)) > 0
    /\ Crash
    /\ lastOp' = FailedOp("handleAddSymbol", raw, "setInputSymbol", "none")

\* setMySymbols is queued, setItem throws before setPortfolioStocks;
\* the [mySymbols] effect of the next render throws
handleRemoveSymbol_QuotaExceeded(symbolToRemove) ==
    /\ phase = "running"
    /\ activeTab = "MARKET_ANALYSIS"
    /\ symbolToRemove \in Range(mySymbols)
    /\ Crash
    /\ lastOp' = FailedOp("handleRemoveSymbol", symbolToRemove, "setPortfolioStocks", "none")

\* setItem throws inside the updater of setStockQuantities, which React
\* runs while rendering
handleQuantityChange_QuotaExceeded(symbol, qty) ==
    /\ phase = "running"
    /\ symbol \in AnalyzedSymbols(portfolioStocks)
    /\ Crash
    /\ lastOp' = FailedOp("handleQuantityChange", <<symbol, qty>>, "setStockQuantities",
                           "none")

\* setPortfolioStocks(data) is queued, setItem throws inside the try: the
\* catch sets the analysis error message, finally clears the flag; the
\* [portfolioStocks] effect of the next render throws
AnalyzeReturn_QuotaExceeded(resp) ==
    /\ phase = "running"
    /\ analysisInFlight > 0
    /\ resp.kind # "raise"
    /\ Crash
    /\ lastOp' = FailedOp("analyzeReturn", ResponseKind(resp), "", AnalysisFailedMsg)

\* the [plan] effect throws at its setItem, before calculate()
handleInputChange_QuotaExceeded(field, value) ==
    /\ phase = "running"
    /\ activeTab = "RETIREMENT_PLANNING"
    /\ Crash
    /\ lastOp' = FailedOp("handleInputChange", <<>>, "calculate", "none")

\* try { setItem ... } catch (e) { console.error(...); alert(...) }
handleManualSave_QuotaExceeded ==
    /\ phase = "running"
    /\ activeTab = "MARKET_ANALYSIS"
    /\ lastOp' = FailedOp("handleManualSave", <<>>, "setShowSaveToast", "alert")
    /\ writes' = {}
    /\ UNCHANGED <<phase, storage, envKey, collections, flags, requests, retirementTab>>

Next ==
    \/ Mount
    \/ Reload
    \/ \E raw \in TypedInputs : handleAddSymbol(raw)
    \/ \E s \in Symbols : handleRemoveSymbol(s)
    \/ \E s \in AnalysisSymbols, qty \in QtyInputs : handleQuantityChange(s, qty)
    \/ handleAnalyzePortfolio
    \/ \E resp \in AnalysisResponses : AnalyzeReturn(resp)
    \/ handleFetchTrends
    \/ \E resp \in TrendResponses : TrendsReturn(resp)
    \/ \E k \in KeyInputs : handleSaveApiKey(k)
    \/ clearApiKey

Spec == Init /\ [][Next]_vars

(***************************************************************************)
(* The watch-list alone: page loads, addSymbols with every raw input and   *)
(* removeSymbol.                                                           *)
(***************************************************************************)
NextWatchList ==
    \/ Mount
    \/ Reload
    \/ \E raw \in RawInputs : handleAddSymbol(raw)
    \/ \E s \in Symbols : handleRemoveSymbol(s)

\* no API key and no stored analysis: neither is read by these handlers
InitWatchList ==
    /\ Init
    /\ envKey = FALSE
    /\ storage.apiKey = ABSENT
    /\ storage.data = ABSENT

SpecWatchList == InitWatchList /\ [][NextWatchList]_vars

(***************************************************************************)
(* The retirement tab: a session with one holding recovered from the       *)
(* quantities, a stored key, and the plan item an earlier session left.    *)
(***************************************************************************)
\* a plan an earlier session wrote
SavedPlan ==
    [currentAge |-> 30, retirementAge |-> 31, currentSavings |-> 5, monthlySavings |-> 2,
     targetMonthlyPension |-> 1, expectedAnnualReturn |-> 1200, insurancePrincipal |-> 4,
     insuranceRate |-> N(100), insuranceYearDone |-> 2022]

InitialPlanItems == {ABSENT, CORRUPT, JSONstringify(SavedPlan)}

InitRetirement ==
    /\ phase = "unloaded"
    /\ storage = [symbols |-> ABSENT,
                  quantities |-> JSONstringify([s \in {"2330"} |-> 2]),
                  data |-> ABSENT,
                  apiKey |-> JSONstringify("k")]
    /\ envKey = FALSE
    /\ Unmounted
    /\ planItem \in InitialPlanItems
    /\ lastOp = Op("none", <<>>)
    /\ writes = {}

\* how far a cash amount is from 0 or from the default savings
Drift(cash) ==
    IF Abs(cash) <= Abs(cash - DefaultPlan.currentSavings) THEN Abs(cash)
    ELSE Abs(cash - DefaultPlan.currentSavings)

NextRetirement ==
    \/ Mount
    \/ Reload
    \/ \E tab \in {"MARKET_ANALYSIS", "RETIREMENT_PLANNING"} :
            setActiveTab(tab) /\ Drift(cashSavings') <= MaxDrift
    \/ \E s \in Symbols : handleRemoveSymbol(s)
    \/ \E qty \in QtyInputs : handleQuantityChange("2330", qty)
    \/ handleAnalyzePortfolio
    \/ \E b \in Batches : AnalyzeReturn(TextResponse(JSONstringify(b)))
    \/ \E e \in PlanEdits : handleInputChange(e[1], e[2])
    \/ \E c \in CashInputs : handleCashChange(c)

SpecRetirement == InitRetirement /\ [][NextRetirement]_vars

(***************************************************************************)
(* The advice request of the retirement tab, with and without a stored key.*)
(***************************************************************************)
InitAdvice ==
    /\ phase = "unloaded"
    /\ storage \in [symbols : {ABSENT}, quantities : {ABSENT}, data : {ABSENT},
                     apiKey : {ABSENT, JSONstringify("k")}]
    /\ envKey = FALSE
    /\ Unmounted
    /\ planItem \in InitialPlanItems
    /\ lastOp = Op("none", <<>>)
    /\ writes = {}

NextAdvice ==
    \/ Mount
    \/ Reload
    \/ \E tab \in {"MARKET_ANALYSIS", "RETIREMENT_PLANNING"} : setActiveTab(tab)
    \/ \E e \in PlanEdits : handleInputChange(e[1], e[2])
    \/ fetchAdvice
    \/ \E o \in AdviceOutcomes : AdviceReturn(AdviceResponse(o))
    \/ \E k \in KeyInputs : handleSaveApiKey(k)
    \/ clearApiKey

SpecAdvice == InitAdvice /\ [][NextAdvice]_vars

(***************************************************************************)
(* A session in which a write to localStorage may fail in any step.        *)
(***************************************************************************)
InitStorageFull ==
    /\ InitRetirement
    /\ planItem = ABSENT

\* the input typed into the add field in these sessions
StorageFullInputs == {<<"304">>}

NextStorageFull ==
    \/ Mount
    \/ Mount_QuotaExceeded
    \/ Reload
    \/ \E raw \in StorageFullInputs :
          \/ handleAddSymbol(raw)
          \/ handleAddSymbol_QuotaExceeded(raw)
    \/ \E s \in Symbols :
          \/ handleRemoveSymbol(s)
          \/ handleRemoveSymbol_QuotaExceeded(s)
    \/ \E qty \in QtyInputs :
          \/ handleQuantityChange("2330", qty)
          \/ handleQuantityChange_QuotaExceeded("2330", qty)
    \/ handleAnalyzePortfolio
    \/ \E b \in Batches :
          \/ AnalyzeReturn(TextResponse(JSONstringify(b)))
          \/ AnalyzeReturn_QuotaExceeded(TextResponse(JSONstringify(b)))
    \/ handleManualSave
    \/ handleManualSave_QuotaExceeded
    \/ \E tab \in {"MARKET_ANALYSIS", "RETIREMENT_PLANNING"} :
            setActiveTab(tab) /\ Drift(cashSavings') <= MaxDrift
    \/ \E e \in PlanEdits :
          \/ handleInputChange(e[1], e[2])
          \/ handleInputChange_QuotaExceeded(e[1], e[2])

SpecStorageFull == InitStorageFull /\ [][NextStorageFull]_vars

(***************************************************************************)
(* Properties.                                                             *)
(***************************************************************************)
\* the entries a step appended to the watch-list
Appended == SubSeq(mySymbols', Len(mySymbols) + 1, Len(mySymbols'))

\* the watch-list symbols without an analysis entry
PendingSet(symbols, stocks) == {s \in Range(symbols) : s \notin AnalyzedSymbols(stocks)}

\* the analysis entries of watch-list symbols
WatchListStocks(stocks, symbols) ==
    SelectSeq(stocks, LAMBDA e : e.symbol \in Range(symbols))

\* a token as the watch-list is meant to hold it
IsClean(s) == s # "" /\ Trim(s) = s /\ ToUpperCase(s) = s

AddStep == lastOp'.op = "handleAddSymbol"
RemoveStep == lastOp'.op = "handleRemoveSymbol"
MountStep == lastOp'.op = "mount"

\* a request that ended by raising: at the click (no credential) or later
AnalysisRaised ==
    lastOp'.op \in {"handleAnalyzePortfolio", "analyzeReturn"} /\ lastOp'.input = "raise"
TrendsRaised ==
    lastOp'.op \in {"handleFetchTrends", "trendsReturn"} /\ lastOp'.input = "raise"

\* C1: in every state reached by addSymbols and removeSymbol calls from a
\* duplicate-free watch-list, no symbol is in the watch-list twice.
C1_NoDuplicateSymbols ==
    \A i, j \in DOMAIN mySymbols : i # j => mySymbols[i] # mySymbols[j]

\* C2: setQuantity with a negative quantity is rejected, so every quantity of
\* the holding-quantities collection is non-negative in every state.
C2_QuantitiesNonNegative ==
    \A s \in DOMAIN stockQuantities : stockQuantities[s] >= 0

\* C3: a portfolio analysis request that ends with a malformed response leaves
\* the analysis collection, in memory and persisted, as it was before.
C3_MalformedKeepsSnapshot ==
    [][(lastOp'.op = "analyzeReturn" /\ lastOp'.input = "malformed")
        => /\ portfolioStocks' = portfolioStocks
           /\ storage'.data = storage.data]_vars

\* C4: a portfolio analysis or trending request that fails by raising sets the
\* error message of its kind and changes neither the watch-list, the holding
\* quantities and the analysis collection nor anything in storage.
C4_RaiseLeavesStateUntouched ==
    [][/\ AnalysisRaised => errorMsg' = AnalysisFailedMsg
       /\ TrendsRaised => errorMsg' = TrendsFailedMsg
       /\ (AnalysisRaised \/ TrendsRaised)
            => /\ mySymbols' = mySymbols
               /\ stockQuantities' = stockQuantities
               /\ portfolioStocks' = portfolioStocks
               /\ storage' = storage]_vars

C4_Witness ==
    /\ lastOp.op = "analyzeReturn"
    /\ lastOp.input = "raise"
    /\ errorMsg = AnalysisFailedMsg
    /\ mySymbols # <<>>
    /\ portfolioStocks # <<>>
    /\ stockQuantities # EmptyMap
    /\ storage.data = JSONstringify(portfolioStocks)

\* C5: removeSymbol(s) takes every s out of the watch-list and every entry for s
\* out of the analysis collection, keeps the other watch-list entries in their
\* order and the holding quantities as they are, so s is not pending afterwards;
\* addSymbols keeps the holding quantities too, so a symbol added again finds
\* the quantity held for it.
C5_RemoveKeepsQuantities ==
    [][/\ RemoveStep =>
            LET s == lastOp'.input
            IN /\ s \notin Range(mySymbols')
               /\ s \notin AnalyzedSymbols(portfolioStocks')
               /\ mySymbols' = SelectSeq(mySymbols, LAMBDA x : x # s)
               /\ stockQuantities' = stockQuantities
               /\ storage'.quantities = storage.quantities
               /\ s \notin PendingSet(mySymbols', portfolioStocks')
       /\ AddStep => stockQuantities' = stockQuantities]_vars

C5_Witness ==
    /\ lastOp.op = "handleRemoveSymbol"
    /\ lastOp.input \in DOMAIN stockQuantities
    /\ stockQuantities[lastOp.input] = 2
    /\ Len(mySymbols) >= 2
    /\ portfolioStocks # <<>>

\* C6: at initialization an empty or absent persisted watch-list with a
\* non-empty persisted quantities mapping gives a watch-list of exactly the
\* mapping's keys, written to the watch-list key in the same step; a non-empty
\* persisted watch-list is loaded as it is.
C6_RecoveryAtLoad ==
    [][MountStep =>
        LET saved == storage.symbols
            savedQty == storage.quantities
        IN /\ ( /\ saved \in {ABSENT, JSONstringify(<<>>)}
                /\ savedQty.kind = "json"
                /\ DOMAIN savedQty.val # {} )
              => /\ Range(mySymbols') = DOMAIN savedQty.val
                 /\ Len(mySymbols') = Cardinality(DOMAIN savedQty.val)
                 /\ storage'.symbols = JSONstringify(mySymbols')
                 /\ "symbols" \in writes'
           /\ (saved.kind = "json" /\ saved.val # <<>>) => mySymbols' = saved.val]_vars

C6_Witness ==
    /\ lastOp.op = "mount"
    /\ lastOp.input = "recovered"
    /\ Len(mySymbols) = 2
    /\ Range(mySymbols) = DOMAIN stockQuantities
    /\ storage.symbols = JSONstringify(mySymbols)

\* C7: in every state the portfolio market value is the sum of currentPrice *
\* quantity over the analysis entries whose symbol is in the watch-list.
C7_ValueOfWatchListOnly ==
    portfolioTotalValue
        = TotalValue(WatchListStocks(portfolioStocks, mySymbols), stockQuantities)

\* C8: the pending indicator is true exactly when some watch-list symbol has no
\* entry in the analysis collection: false for an empty watch-list, true for a
\* non-empty watch-list with an empty analysis collection.
C8_PendingIffUnanalysed ==
    /\ hasPendingSymbols <=> PendingSet(mySymbols, portfolioStocks) # {}
    /\ mySymbols = <<>> => ~hasPendingSymbols
    /\ (mySymbols # <<>> /\ portfolioStocks = <<>>) => hasPendingSymbols

C8_Witness ==
    /\ portfolioStocks # <<>>
    /\ hasPendingSymbols
    /\ Len(mySymbols) >= 2
    /\ PendingSet(mySymbols, portfolioStocks) # Range(mySymbols)

\* C9: addSymbols corrects before it looks for duplicates: it never appends
\* "304", a token "304" puts "3042" into the watch-list, and "304" alone
\* appends "3042" when the watch-list lacks it and nothing when it holds it.
C9_CorrectionBeforeDedup ==
    [][AddStep =>
        LET raw == lastOp'.input
        IN /\ "304" \notin Range(Appended)
           /\ "304" \in Range(raw) => "3042" \in Range(mySymbols')
           /\ (raw = <<"304">> /\ "3042" \notin Range(mySymbols))
                => Appended = <<"3042">>
           /\ (raw = <<"304">> /\ "3042" \in Range(mySymbols))
                => mySymbols' = mySymbols]_vars

C9_Witness ==
    /\ lastOp.op = "handleAddSymbol"
    /\ lastOp.input = <<"304">>
    /\ writes = {"symbols"}
    /\ Len(mySymbols) >= 2
    /\ mySymbols[Len(mySymbols)] = "3042"

\* C10: addSymbols keeps the old watch-list as a prefix and appends the
\* surviving tokens in input order, each trimmed, upper-cased, non-empty and
\* not in the old watch-list; with no survivor it changes nothing and writes
\* nothing, with one it writes the new watch-list.
C10_AppendSurvivors ==
    [][AddStep =>
        LET raw == lastOp'.input
        IN /\ Len(mySymbols') >= Len(mySymbols)
           /\ SubSeq(mySymbols', 1, Len(mySymbols)) = mySymbols
           /\ \A i \in DOMAIN Appended :
                IsClean(Appended[i]) /\ Appended[i] \notin Range(mySymbols)
           /\ Appended = SelectSeq(NewSymbols(raw), LAMBDA s : s \notin Range(mySymbols))
           /\ Appended = <<>> => (storage' = storage /\ writes' = {})
           /\ Appended # <<>>
                => /\ storage'.symbols = JSONstringify(mySymbols')
                   /\ "symbols" \in writes']_vars

C10_Witness ==
    /\ lastOp.op = "handleAddSymbol"
    /\ lastOp.input = <<"\taapl", "304">>
    /\ writes = {"symbols"}
    /\ mySymbols = <<"2330", "AAPL", "3042">>


\* C11: after an addSymbols call that appended at least one symbol, the
\* watch-list the initializer reads back from localStorage is the in-memory
\* watch-list, element for element and in order, whatever the persisted
\* quantities hold.
C11_AddRoundTrip ==
    [][(AddStep /\ Appended # <<>>)
        => /\ MySymbolsInitializer(storage').symbols = mySymbols'
           /\ MySymbolsInitializer(storage').store = storage']_vars

C11_Witness ==
    /\ lastOp.op = "handleAddSymbol"
    /\ writes = {"symbols"}
    /\ Len(mySymbols) >= 2
    /\ storage.quantities.kind = "json"
    /\ DOMAIN storage.quantities.val # {}
    /\ Range(mySymbols) # DOMAIN storage.quantities.val
    /\ MySymbolsInitializer(storage).symbols = mySymbols


\* C12: when a portfolio analysis request succeeds, the analysis collection
\* becomes exactly the returned batch, no earlier entry that is not in the
\* batch remains, and the persisted analysis value is the batch.
C12_SuccessReplaces ==
    [][(lastOp'.op = "analyzeReturn" /\ lastOp'.input = "ok")
        => LET batch == lastOp'.resp.text.val
           IN /\ portfolioStocks' = batch
              /\ \A i \in DOMAIN portfolioStocks :
                    portfolioStocks[i] \notin Range(batch)
                        => portfolioStocks[i] \notin Range(portfolioStocks')
              /\ storage'.data = JSONstringify(batch)
              /\ "data" \in writes']_vars

C12_Witness ==
    /\ lastOp.op = "analyzeReturn"
    /\ lastOp.input = "ok"
    /\ lastOp.resp.text.val # <<>>
    /\ portfolioStocks = lastOp.resp.text.val
    /\ storage.data = JSONstringify(portfolioStocks)


\* C13: whenever a user action or a request completion has been processed,
\* with its persistence effects, each persisted value is the JSON encoding of
\* the in-memory value: the watch-list, the quantities, the analysis entries
\* and, while the retirement tab is shown, the plan.
C13_PersistedMatchesMemory ==
    phase = "running"
        => /\ storage.symbols = JSONstringify(mySymbols)
           /\ storage.quantities = JSONstringify(stockQuantities)
           /\ storage.data = JSONstringify(portfolioStocks)
           /\ activeTab = "RETIREMENT_PLANNING" => planItem = JSONstringify(plan)

C13_Witness ==
    /\ phase = "running"
    /\ activeTab = "RETIREMENT_PLANNING"
    /\ lastOp.op = "handleQuantityChange"
    /\ plan.currentSavings = cashSavings + portfolioTotalValue
    /\ portfolioTotalValue # 0
    /\ cashSavings # 0
    /\ plan.expectedAnnualReturn = 0
    /\ planItem = JSONstringify(plan)
    /\ storage.quantities = JSONstringify(stockQuantities)


\* C14: in every settled state in which the plan has retirementAge <=
\* currentAge no projection result is present, also when the plan was edited
\* from a valid one that had a result.
C14_NoResultForInvalidPlan ==
    (activeTab = "RETIREMENT_PLANNING" /\ plan.retirementAge <= plan.currentAge)
        => ~result.present


\* C15: after every plan mutation that leaves retirementAge > currentAge (a
\* field edit, a cash edit, a change of the portfolio value), once the effects
\* have settled the cached result is the projection of the current plan.
C15_ResultOfCurrentPlan ==
    (activeTab = "RETIREMENT_PLANNING" /\ plan.retirementAge > plan.currentAge)
        => result = Projection(plan)

C15_Witness ==
    /\ activeTab = "RETIREMENT_PLANNING"
    /\ lastOp.op = "handleCashChange"
    /\ portfolioTotalValue # 0
    /\ plan.currentSavings = 5 + portfolioTotalValue
    /\ plan.retirementAge = 31
    /\ plan.expectedAnnualReturn = 1200
    /\ result.present
    /\ result.totalAccumulated = totalAccumulated(plan)
    /\ IsInt(result.totalAccumulated)


\* C16: with expectedAnnualReturn = 0 and retirementAge > currentAge the
\* annuity future value is monthlySavings * months, the lump-sum future
\* value is currentSavings, and no result of a division by zero reaches
\* totalAccumulated.
C16_ZeroRate ==
    ( /\ activeTab = "RETIREMENT_PLANNING"
      /\ plan.expectedAnnualReturn = 0
      /\ plan.retirementAge > plan.currentAge )
        => /\ fvMonthly(plan) = N(plan.monthlySavings * months(plan))
           /\ fvLumpSum(plan) = N(plan.currentSavings)
           /\ ~IsNaN(totalAccumulated(plan))
           /\ ~IsNaN(result.totalAccumulated)


\* C17: with insuranceYearDone later than the retirement year (current year +
\* retirementAge - currentAge) the insurance compounds for 0 years and adds
\* exactly insurancePrincipal to totalAccumulated; the count of compounding
\* years is never negative.
C17_InsuranceNotYetPaidUp ==
    activeTab = "RETIREMENT_PLANNING"
        => /\ insuranceCompoundingYears(plan) >= 0
           /\ plan.insuranceYearDone > currentYear + plan.retirementAge - plan.currentAge
                => /\ insuranceCompoundingYears(plan) = 0
                   /\ fvInsurance(plan) = N(plan.insurancePrincipal)
                   /\ totalAccumulated(plan)
                        = Add(Add(fvLumpSum(plan), fvMonthly(plan)), N(plan.insurancePrincipal))
                   /\ plan.retirementAge > plan.currentAge
                        => result.totalAccumulated = totalAccumulated(plan)

C17_Witness ==
    /\ activeTab = "RETIREMENT_PLANNING"
    /\ plan.insuranceYearDone = 2100
    /\ plan.retirementAge = 31
    /\ plan.expectedAnnualReturn = 1200
    /\ result.present
    /\ result.totalAccumulated
         = N(plan.currentSavings * 4096 + plan.monthlySavings * 4095 + plan.insurancePrincipal)


\* C18: after the split on mount, in every settled state reached by cash
\* edits, quantity changes, analysis replacements and symbol removals,
\* plan.currentSavings = cashSavings + the portfolio market value.
C18_SavingsIsCashPlusPortfolio ==
    activeTab = "RETIREMENT_PLANNING"
        => plan.currentSavings = cashSavings + portfolioTotalValue

C18_Witness ==
    /\ activeTab = "RETIREMENT_PLANNING"
    /\ lastOp.op = "analyzeReturn"
    /\ cashSavings = 5
    /\ portfolioTotalValue = 6
    /\ plan.currentSavings = 11
    /\ planItem = JSONstringify(plan)


\* an advice request that ended by raising: at the click (no credential) or
\* when the collaborator answered
AdviceRaised ==
    lastOp'.op \in {"fetchAdvice", "adviceReturn"} /\ lastOp'.input = "raise"

\* C20: when an advice request fails, a user-facing error is surfaced, the
\* advice shown before, the plan and the projection stay as they were, and
\* no request is sent again.
C20_AdviceFailureSurfaced ==
    [][AdviceRaised
        => /\ errorMsg' # NoMessage
           /\ advice' = advice
           /\ plan' = plan
           /\ result' = result
           /\ adviceInFlight' = 0]_vars


\* C22: while no credential is stored or in the environment no step sends a
\* request; the page load shows the key dialog and fetches nothing, a key of
\* whitespace is not stored, and an analysis attempt ends with the error
\* message, the collections as they were and the page still running.
C22_NoKeyNoRequest ==
    [][/\ (\/ analysisInFlight' > analysisInFlight
           \/ trendsInFlight' > trendsInFlight
           \/ adviceInFlight' > adviceInFlight) => HasApiKey(storage', envKey)
       /\ (MountStep /\ ~HasApiKey(storage, envKey)) =>
              /\ showApiKeyModal'
              /\ ~trendLoading'
              /\ trendsInFlight' = 0
              /\ errorMsg' = NoMessage
       /\ (lastOp'.op = "handleSaveApiKey" /\ Trim(lastOp'.input) = "") =>
              /\ storage' = storage
              /\ showApiKeyModal' = showApiKeyModal
              /\ trendsInFlight' = trendsInFlight
       /\ (lastOp'.op = "handleAnalyzePortfolio" /\ ~HasApiKey(storage, envKey)) =>
              /\ errorMsg' = AnalysisFailedMsg
              /\ ~portfolioLoading'
              /\ analysisInFlight' = analysisInFlight
              /\ phase' = "running"
              /\ UNCHANGED <<collections, storage>>]_vars

\* an analysis attempt without a credential, with a watch-list and analysis
\* entries on the page
C22_Witness ==
    /\ phase = "running"
    /\ ~HasApiKey(storage, envKey)
    /\ lastOp.op = "handleAnalyzePortfolio"
    /\ lastOp.input = "raise"
    /\ Len(mySymbols) > 0
    /\ Len(portfolioStocks) > 0
    /\ errorMsg = AnalysisFailedMsg
    /\ analysisInFlight = 0

\* C24: loading the plan puts a default in place of a field only when the
\* item is absent or does not parse: for every plan item the application
\* wrote, the plan the initializer returns is the written plan, field for
\* field, a 0 in currentSavings, monthlySavings, expectedAnnualReturn,
\* insurancePrincipal or insuranceRate included.
C24_LoadedPlanIsPersistedPlan ==
    IF planItem.kind = "json"
    THEN PlanInitializer(planItem) = planItem.val
    ELSE PlanInitializer(planItem) = DefaultPlan

\* C25: when RetirementCalc mounts with a persisted total T and a portfolio
\* value P, its effects settle with cashSavings = max(0, T - P) and
\* plan.currentSavings = cashSavings + P.
C25_MountSplit ==
    [][(/\ lastOp'.op = "setActiveTab"
        /\ activeTab' = "RETIREMENT_PLANNING"
        /\ planItem.kind = "json") =>
            LET T == planItem.val.currentSavings
                P == portfolioTotalValue
            IN /\ cashSavings' = IF T - P > 0 THEN T - P ELSE 0
               /\ plan'.currentSavings = cashSavings' + P]_vars

\* C26: once removeSymbol(s) has completed and persisted, initializing the
\* application from localStorage gives a watch-list without s, whatever the
\* watch-list and the holding quantities were, the last entry of the
\* watch-list with a quantity still held included.
C26_RemovedStaysRemoved ==
    [][RemoveStep =>
          lastOp'.input \notin Range(MySymbolsInitializer(storage').symbols)]_vars

\* C27: after initialization a non-empty holding-quantities collection comes
\* with a non-empty watch-list, whether the persisted watch-list was absent,
\* an empty list or unparseable; and an unparseable quantities item does not
\* keep a valid non-empty persisted watch-list from loading.
C27_QuantitiesImplyWatchList ==
    [][MountStep =>
          /\ DOMAIN stockQuantities' # {} => Len(mySymbols') > 0
          /\ (storage.symbols.kind = "json" /\ Len(storage.symbols.val) > 0) =>
                 mySymbols' = storage.symbols.val]_vars

\* C29: unmounting RetirementCalc (leaving the tab, or reloading the page)
\* and mounting it again with the same analysis entries and quantities
\* restores the cashSavings (when it is not negative) and the
\* plan.currentSavings that were in effect before the unmount.
C29_RemountRestores ==
    [][(/\ activeTab = "RETIREMENT_PLANNING"
        /\ activeTab' = "MARKET_ANALYSIS"
        /\ cashSavings >= 0) =>
            LET value == IF phase' = "running" THEN portfolioTotalValue
                         ELSE TotalValue(PortfolioStocksInitializer(storage'),
                                         StockQuantitiesInitializer(storage'))
                mounted == MountSplit(planItem', value)
            IN /\ mounted.cashSavings = cashSavings
               /\ mounted.plan.currentSavings = plan.currentSavings]_vars

\* C30: once a request settles, by an answer or by raising, the loading flag
\* of its kind (portfolio analysis, trending, advice) is false again, so
\* that the control is enabled and the user can issue the action again.
C30_LoadingFlagReturns ==
    [][/\ (lastOp'.op = "analyzeReturn" \/ AnalysisRaised) => ~portfolioLoading'
       /\ (lastOp'.op = "trendsReturn" \/ TrendsRaised) => ~trendLoading'
       /\ (lastOp'.op = "adviceReturn" \/ AdviceRaised) => ~loadingAdvice']_vars

\* C23: with the controls disabled while their loading flag is set, at most
\* one portfolio analysis request and at most one trending request is in
\* flight at any time, and a request in flight has its loading flag set,
\* over every interleaving of page loads, refreshes, key saves, analyze
\* clicks and answers.
C23_OneInFlightPerKind ==
    /\ analysisInFlight <= 1
    /\ trendsInFlight <= 1
    /\ analysisInFlight = 1 => portfolioLoading
    /\ trendsInFlight = 1 => trendLoading

\* both kinds of request in flight at once, sent with a stored key
C23_Witness ==
    /\ phase = "running"
    /\ analysisInFlight = 1
    /\ trendsInFlight = 1
    /\ portfolioLoading
    /\ trendLoading
    /\ storage.apiKey.kind = "json"
    /\ ~envKey

\* C28: every projection result has shortfall >= 0, and isGoalReachable is
\* true exactly when shortfall is 0.  A comparison the model leaves
\* uncomputed (a term) counts for neither side.
C28_ShortfallAndReachability ==
    (activeTab = "RETIREMENT_PLANNING" /\ result.present) =>
        /\ Geq(result.shortfall, N(0)) # False
        /\ result.isGoalReachable = True => Geq(N(0), result.shortfall) # False
        /\ result.isGoalReachable = False => result.shortfall # N(0)

\* a step in which a write to localStorage failed
WriteFailed == "failed" \in DOMAIN lastOp'

\* C21: a failing ambient persistence write (the immediate writes of
\* addSymbols, removeSymbol, setQuantity and analysis completion, and the
\* backstop effects) is not raised: the page keeps running, the action's
\* in-memory change is made, none of its later steps is skipped and nothing
\* is reported to the user, an analysis failure least of all; a failing
\* explicit save is reported to the user and changes nothing.
C21_AmbientWriteFailureNotRaised ==
    [][WriteFailed =>
          IF lastOp'.op = "handleManualSave"
          THEN /\ lastOp'.reported = "alert"
               /\ phase' = "running"
               /\ UNCHANGED <<collections, storage, errorMsg>>
          ELSE /\ phase' = "running"
               /\ lastOp'.skipped = ""
               /\ lastOp'.reported = "none"
               /\ errorMsg' = errorMsg
               /\ lastOp'.op = "handleRemoveSymbol" =>
                      /\ lastOp'.input \notin Range(mySymbols')
                      /\ lastOp'.input \notin AnalyzedSymbols(portfolioStocks')
               /\ lastOp'.op = "handleAddSymbol" => Len(mySymbols') > Len(mySymbols)
               /\ lastOp'.op = "handleQuantityChange" =>
                      QtyOf(stockQuantities', lastOp'.input[1]) = lastOp'.input[2]
               /\ lastOp'.op = "analyzeReturn" => ~portfolioLoading']_vars
====
